---- MODULE Spec2Model ----
(***************************************************************************)
(* Hypermix: the mix-execution pipeline of src/mod.ts (buildRepomixArgs,   *)
(* runRepomix, main), the ignore-file synchronizer (modifyIgnoreFile,      *)
(* updateIgnoreFiles) and the token accounting engine (fetchAllFileTokens, *)
(* countTokensInFiles), with the loading of the configuration              *)
(* (loadConfig of src/load-config.ts) and the logger in front of them.     *)
(*                                                                         *)
(* Strings are TLA+ strings; a file's content is a string; the file system *)
(* is the set of paths that exist.                                         *)
(***************************************************************************)
EXTENDS Integers, Sequences, FiniteSets, TLC

VARIABLES
  source,          \* the configuration source: --config, the config files in cwd, the content
  argSilent,       \* globalArgs.silent: --silent or -s was given
  loaded,          \* what loadConfig returned (NotLoaded before it returns)
  out,             \* what the logger and the spinner have written, in order
  configs,         \* hypermixConfig.mixes: the mix descriptors, in declared order
  outputPath,      \* the global output root
  unexpected,      \* environment: unexpected[i] <=> ensureDir/spawn throws for mix i
  files,           \* the paths that exist on disk (config files and output files)
  fileLen,         \* the length in characters of the text of each output file
  readSize,        \* environment: the size of the reads a file's stream delivers it in
  pc,              \* position in main()
  cur,             \* 1-based index of the loop `for (const config of configs)`
  phase,           \* per mix: position inside runRepomix
  toolCalls,       \* per mix: the argument lists the external tool was spawned with
  toolExit,        \* per mix: did the subprocess report success
  toolWrote,       \* per mix: did the subprocess write its output file
  results,         \* main's `results` array (each record with its mix index)
  ignore,          \* the content of the three ignore files (Missing: no file)
  ignoreHist,      \* the ignore files as each run of the synchronizer found and left them
  call,            \* the arguments of modifyIgnoreFile when it is called on its own
  existingResults, \* main's `existingResults` array
  filePaths,       \* the paths given to countTokensInFiles
  taskPos,         \* per file task: the chunks read so far
  taskTokens,      \* per file task: `fileTokens`
  taskDone,        \* per file task: its promise is resolved
  nextYield,       \* fetchAllFileTokens: index of the promise awaited next
  result,          \* countTokensInFiles: `result`, an object as a list of entries
  totalTokens,     \* countTokensInFiles: `totalTokens`
  report,          \* what countTokensInFiles returned (<<>> before it returns)
  entered,         \* the file indexes in the order their counts entered `result`
  completed,       \* the file indexes in the order their promises resolved
  amix,            \* the mix descriptor given to buildRepomixArgs on its own
  built            \* what buildRepomixArgs returned for amix

cliVars == <<source, argSilent, loaded>>
envVars == <<cliVars, configs, outputPath, unexpected, readSize>>
loopVars == <<cur, phase, toolCalls, toolExit, toolWrote, results>>
ignoreVars == <<ignore, ignoreHist, call>>
tokenVars == <<filePaths, taskPos, taskTokens, taskDone, nextYield, result,
               totalTokens, report, entered, completed>>
argsVars == <<amix, built>>

vars == <<envVars, files, fileLen, pc, loopVars, ignoreVars, existingResults,
          tokenVars, argsVars, out>>

-----------------------------------------------------------------------------
(* Bounds *)

MaxMixes == 2
MaxFiles == 2
MaxRuns == 2

-----------------------------------------------------------------------------
(* JavaScript values *)

\* a property that is not set (undefined)
U == "<undefined>"

\* JS truthiness of an optional string
Truthy(s) == s # U /\ s # ""

\* a ?? b
Nullish(a, b) == IF a # U THEN a ELSE b

Range(s) == {s[k] : k \in 1..Len(s)}

\* F applied to the value of v: v is evaluated once, before F is applied
Bind(v, F(_)) == CHOOSE r \in {F(x) : x \in {v}} : TRUE

\* the k-th character of a string
Ch(s, k) == SubSeq(s, k, k)

\* Array.prototype.join
RECURSIVE JoinWith(_, _)
JoinWithOf(arr, sep) ==
  IF Len(arr) = 0 THEN ""
  ELSE IF Len(arr) = 1 THEN arr[1]
  ELSE arr[1] \o sep \o JoinWith(Tail(arr), sep)
JoinWith(arr, sep) == Bind(arr, LAMBDA v : JoinWithOf(v, sep))

\* String.prototype.startsWith
StartsWith(s, p) ==
  Bind(s, LAMBDA v : Len(v) >= Len(p) /\ SubSeq(v, 1, Len(p)) = p)

\* the positions at which p occurs in s
Occurrences(s, p) == {k \in 1..(Len(s) - Len(p) + 1) : SubSeq(s, k, k + Len(p) - 1) = p}

\* String.prototype.includes
Includes(s, p) == Bind(s, LAMBDA v : Occurrences(v, p) # {})

Min(S) == CHOOSE k \in S : \A j \in S : k <= j
Max(S) == CHOOSE k \in S : \A j \in S : j <= k

\* the position of the last occurrence of character c in s, 0 when absent
LastIndexOf(s, c) ==
  Bind(s, LAMBDA v : Bind(Occurrences(v, c),
                          LAMBDA hits : IF hits = {} THEN 0 ELSE Max(hits)))

\* String.prototype.split on a single-character separator
RECURSIVE Split(_, _)
SplitAt(s, c, hits) ==
  IF hits = {} THEN <<s>>
  ELSE <<SubSeq(s, 1, Min(hits) - 1)>> \o Split(SubSeq(s, Min(hits) + 1, Len(s)), c)
Split(s, c) ==
  Bind(s, LAMBDA v : Bind(Occurrences(v, c), LAMBDA hits : SplitAt(v, c, hits)))

\* String.prototype.replace(p, ''): the first occurrence of p is removed
RemoveFirst(s, p) ==
  Bind(s, LAMBDA v : Bind(Occurrences(v, p), LAMBDA hits :
    IF hits = {} THEN v
    ELSE SubSeq(v, 1, Min(hits) - 1) \o SubSeq(v, Min(hits) + Len(p), Len(v))))

\* String.prototype.replaceAll(a, b)
RECURSIVE ReplaceAll(_, _, _)
ReplaceAllOf(s, a, b) ==
  IF Len(s) < Len(a) \/ Len(a) = 0 THEN s
  ELSE IF SubSeq(s, 1, Len(a)) = a
       THEN b \o ReplaceAll(SubSeq(s, Len(a) + 1, Len(s)), a, b)
       ELSE Ch(s, 1) \o ReplaceAll(Tail(s), a, b)
ReplaceAll(s, a, b) == Bind(s, LAMBDA v : ReplaceAllOf(v, a, b))

-----------------------------------------------------------------------------
(* @std/text toKebabCase and @std/path parse, as kebabFilename uses them *)

UpperSeq == <<"A","B","C","D","E","F","G","H","I","J","K","L","M",
              "N","O","P","Q","R","S","T","U","V","W","X","Y","Z">>
LowerSeq == <<"a","b","c","d","e","f","g","h","i","j","k","l","m",
              "n","o","p","q","r","s","t","u","v","w","x","y","z">>
DigitSet == {"0","1","2","3","4","5","6","7","8","9"}
WhiteSet == {" ", "\t", "\r", "\n"}

IsUpper(c) == \E k \in 1..26 : UpperSeq[k] = c
IsLower(c) == \E k \in 1..26 : LowerSeq[k] = c
IsDigit(c) == c \in DigitSet

LowerChar(c) ==
  IF IsUpper(c) THEN LowerSeq[CHOOSE k \in 1..26 : UpperSeq[k] = c] ELSE c

\* String.prototype.toLowerCase
RECURSIVE ToLower(_)
ToLowerOf(s) ==
  IF Len(s) = 0 THEN ""
  ELSE Bind(Ch(s, 1), LAMBDA c : LowerChar(c)) \o ToLower(Tail(s))
ToLower(s) == Bind(s, LAMBDA v : ToLowerOf(v))

\* String.prototype.trim
RECURSIVE TrimStart(_)
TrimStartOf(s) ==
  IF Len(s) > 0 /\ Ch(s, 1) \in WhiteSet THEN TrimStart(Tail(s)) ELSE s
TrimStart(s) == Bind(s, LAMBDA v : TrimStartOf(v))
RECURSIVE TrimEnd(_)
TrimEndOf(s) ==
  IF Len(s) > 0 /\ Ch(s, Len(s)) \in WhiteSet
  THEN TrimEnd(SubSeq(s, 1, Len(s) - 1)) ELSE s
TrimEnd(s) == Bind(s, LAMBDA v : TrimEndOf(v))
Trim(s) == TrimEnd(TrimStart(s))

CharClass(c) ==
  Bind(c, LAMBDA v : IF IsUpper(v) THEN "Lu" ELSE IF IsLower(v) THEN "Ll"
                     ELSE IF IsDigit(v) THEN "N" ELSE "other")

\* the length of the longest run of characters of class cls in s from
\* position k on
RECURSIVE RunLen(_, _, _)
RunLenOf(s, k, cls) ==
  IF k <= Len(s) /\ CharClass(Ch(s, k)) = cls THEN 1 + RunLen(s, k + 1, cls) ELSE 0
RunLen(s, k, cls) == Bind(k, LAMBDA kv : RunLenOf(s, kv, cls))

\* the length of the word that WORD_OR_NUMBER_REGEXP matches at position k
\* (0: no word starts here): a capitalized word /\p{Lu}\p{Ll}+/, an acronym
\* /\p{Lu}+(?=(\p{Lu}\p{Ll})|\P{L}|\b)/, a lowercase word /\p{Ll}+/ or digits
\* /\p{N}+/, tried in that order
WordLenAt(s, k) ==
  Bind(RunLen(s, k, "Lu"), LAMBDA up :
    IF up > 0
    THEN Bind(RunLen(s, k + 1, "Ll"), LAMBDA lo :
           IF lo > 0 THEN 1 + lo
           ELSE IF k + up <= Len(s) /\ IsLower(Ch(s, k + up)) THEN up - 1
           ELSE up)
    ELSE Bind(RunLen(s, k, "Ll"), LAMBDA lo :
           IF lo > 0 THEN lo ELSE RunLen(s, k, "N")))

\* splitToWords: input.match(WORD_OR_NUMBER_REGEXP) ?? []
RECURSIVE SplitToWords(_, _)
SplitToWordsOf(s, k, n) ==
  IF n = 0 THEN SplitToWords(s, k + 1)
  ELSE <<SubSeq(s, k, k + n - 1)>> \o SplitToWords(s, k + n)
SplitToWords(s, k) ==
  IF k > Len(s) THEN <<>>
  ELSE Bind(k, LAMBDA kv : Bind(WordLenAt(s, kv), LAMBDA n : SplitToWordsOf(s, kv, n)))

\* toKebabCase: the words of the trimmed input, joined by `-`, in lower case
toKebabCase(input) ==
  Bind(Trim(input), LAMBDA v : ToLower(JoinWith(SplitToWords(v, 1), "-")))

\* @std/path parse(path): dir, name and ext of a path
ParseDir(path) ==
  Bind(LastIndexOf(path, "/"),
       LAMBDA k : IF k = 0 THEN "" ELSE IF k = 1 THEN "/" ELSE SubSeq(path, 1, k - 1))
ParseBase(path) ==
  Bind(path, LAMBDA v : SubSeq(v, LastIndexOf(v, "/") + 1, Len(v)))
ParseExt(path) ==
  Bind(ParseBase(path), LAMBDA b : Bind(LastIndexOf(b, "."),
       LAMBDA k : IF k <= 1 THEN "" ELSE SubSeq(b, k, Len(b))))
ParseName(path) ==
  Bind(ParseBase(path), LAMBDA b : SubSeq(b, 1, Len(b) - Len(ParseExt(b))))

\* @std/path join of two segments (the segments of the model hold no `.`,
\* `..` or doubled separators, so normalisation leaves them as they are)
Join(a, b) ==
  IF a = "" THEN b ELSE IF b = "" THEN a
  ELSE IF Ch(a, Len(a)) = "/" THEN a \o b ELSE a \o "/" \o b

\* as kebabFilename, with the directory of the path dropped
kebabFilename_NameOnly(path) ==
  Bind(path, LAMBDA v : toKebabCase(ParseName(v)) \o ParseExt(v))

\* kebabFilename of createFileHelpers
kebabFilename(path) ==
  Bind(path, LAMBDA v :
    Join(ParseDir(v), toKebabCase(ParseName(v)) \o ParseExt(v)))

GithubPrefix == "https://github.com/"

\* outputFromGithub of createFileHelpers
outputFromGithub(url) ==
  IF ~Includes(url, "github.com") THEN "codebase.xml"
  ELSE Bind(Split(RemoveFirst(url, GithubPrefix), "/"), LAMBDA parts :
         IF Len(parts) >= 2 THEN parts[1] \o "/" \o parts[2] \o ".xml"
         ELSE "codebase.xml")

-----------------------------------------------------------------------------
(* Constants of src/constants.ts *)

REPOMIX_BOOLEAN_FLAGS ==
  <<"--version", "--stdout", "--parsable-style", "--compress",
    "--output-show-line-numbers", "--copy", "--no-file-summary",
    "--no-directory-structure", "--remove-comments", "--remove-empty-lines",
    "--include-empty-directories", "--include-diffs",
    "--no-git-sort-by-changes", "--no-gitignore", "--no-default-patterns",
    "--global", "--no-security-check", "--mcp", "--verbose", "--quiet">>

REPOMIX_DEFAULT_FLAGS ==
  <<"--remove-empty-lines", "--compress", "--quiet", "--parsable-style">>

-----------------------------------------------------------------------------
(* The mix descriptors and the disk the model runs on *)

\* RepomixConfig of src/types.ts
Mix(remote, include, ignores, output, config, repomixConfig, extraFlags) ==
  [remote |-> remote, include |-> include, ignore |-> ignores,
   output |-> output, config |-> config, repomixConfig |-> repomixConfig,
   extraFlags |-> extraFlags]

\* The repomix config files on disk, as parseJsonc reads them: the three
\* places buildRepomixArgs looks for an output path in.  `output` is "<object>"
\* when the file has an `output` object.
DiskConfigs ==
  [p \in {"repomix.config.json", "bare.config.json"} |->
     IF p = "repomix.config.json"
     THEN [outputFilePath |-> "custom/out.xml", outputPath |-> U, output |-> "<object>"]
     ELSE [outputFilePath |-> U, outputPath |-> U, output |-> U]]

\* a config path that names no file
MissingConfig == "missing.json"

\* the mixes the pipeline is run on
MixSet ==
  { Mix(U, <<>>, <<>>, U, U, U, <<>>),
    Mix("owner/repoA", <<>>, <<>>, U, U, U, <<>>),
    Mix("owner/repoB", <<>>, <<>>, U, U, U, <<"--bogus-flag">>),
    Mix(U, <<>>, <<>>, U, U, "repomix.config.json", <<>>),
    Mix(U, <<>>, <<>>, U, U, MissingConfig, <<>>),
    Mix(U, <<>>, <<>>, U, MissingConfig, U, <<>>),
    Mix(U, <<"src/**">>, <<"**/*.test.ts">>, "Docs.xml", U, U, <<"--compress">>) }

\* the descriptors buildRepomixArgs is applied to on its own
MixDomain ==
  { Mix(r, inc, ign, o, c, rc, xf) :
      r \in {U, "owner/repoA", "https://github.com/o/r", "https://gitlab.com/o/r"},
      inc \in {<<>>, <<"src/**", "*.md">>},
      ign \in {<<>>, <<"dist">>},
      o \in {U, "Docs.xml", "sub/My_Report File.XML"},
      c \in {U, "repomix.config.json", MissingConfig},
      rc \in {U, "bare.config.json", MissingConfig},
      xf \in {<<>>, <<"--compress">>} }

OutputRoot == ".hypermix"

\* the global output roots buildRepomixArgs is given
ArgRoots == {OutputRoot, "/w/Out Dir", "/"}

\* output files an earlier run may have left behind
StaleFiles == { {}, {OutputRoot \o "/codebase.xml"} }

\* the lengths of the texts the external tool writes
ToolSizes == {5, 8197}

-----------------------------------------------------------------------------
(* buildRepomixArgs *)

\* repomixConfig.output?.filePath || repomixConfig.outputPath || repomixConfig.output
ConfigOutputPath(cfg) ==
  IF Truthy(cfg.outputFilePath) THEN cfg.outputFilePath
  ELSE IF Truthy(cfg.outputPath) THEN cfg.outputPath
  ELSE cfg.output

\* as IsJsString, for a reader that finds no output path in any config file
IsJsString_Never(v) == FALSE

\* typeof configOutputPath === 'string'
IsJsString(v) == v # U /\ v # "<object>"

\* config.config ?? config.repomixConfig
ConfigPathOf(config) == Nullish(config.config, config.repomixConfig)

\* as FullUrl, with the remote passed as written
FullUrl_AsWritten(config) == config.remote

\* remoteUrl && !remoteUrl.startsWith('http') ? `https://github.com/${remoteUrl}` : remoteUrl
FullUrl(config) ==
  IF Truthy(config.remote) /\ ~StartsWith(config.remote, "http")
  THEN GithubPrefix \o config.remote
  ELSE config.remote

\* the final output path of a mix; disk is the set of existing paths
FinalOutputPath(config, root, disk) ==
  Bind(ConfigPathOf(config), LAMBDA configPath :
  Bind(FullUrl(config), LAMBDA fullUrl :
    IF Truthy(configPath)
    THEN IF configPath \in disk /\ configPath \in DOMAIN DiskConfigs
         THEN Bind(ConfigOutputPath(DiskConfigs[configPath]), LAMBDA declared :
                IF IsJsString(declared) THEN declared ELSE Join(root, "codebase.xml"))
         ELSE Join(root, "codebase.xml")
    ELSE kebabFilename(
           IF Truthy(config.output) THEN Join(root, config.output)
           ELSE IF Truthy(fullUrl) THEN Join(root, outputFromGithub(fullUrl))
           ELSE Join(root, "codebase.xml"))))

\* the `--output` part of the argument list
OutputArgs(config, finalOutputPath) == <<"--output", finalOutputPath>>

buildRepomixArgs(config, root, disk) ==
  Bind(FullUrl(config), LAMBDA fullUrl :
  Bind(ConfigPathOf(config), LAMBDA configPath :
  Bind(FinalOutputPath(config, root, disk), LAMBDA finalOutputPath :
    [args |->
       <<"repomix">>
       \o (IF Truthy(fullUrl) THEN <<"--remote", fullUrl>> ELSE <<>>)
       \o <<"--include",
            JoinWith(IF Len(config.include) > 0 THEN config.include ELSE <<"**/*">>, ",")>>
       \o (IF Len(config.ignore) > 0
           THEN <<"--ignore", JoinWith(config.ignore, ",")>> ELSE <<>>)
       \o (IF Truthy(configPath) THEN <<"--config", configPath>> ELSE <<>>)
       \o REPOMIX_DEFAULT_FLAGS
       \o config.extraFlags
       \o OutputArgs(config, finalOutputPath),
     fullUrl |-> fullUrl,
     outputPath |-> finalOutputPath])))

-----------------------------------------------------------------------------
(* createLogger, and what each step of the program writes with it *)

Line(level, text) == [level |-> level, text |-> text]

\* createLogger(globalArgs.silent): log is dropped when silent, warn and
\* error are always written (debug needs DEBUG in the environment, which the
\* model leaves unset)
LoggerWrites(entry) == entry.level # "log" \/ ~argSilent

\* the console after the logger calls `entries`, in order
Logged(o, entries) == o \o SelectSeq(entries, LoggerWrites)

\* main().catch: logger.error(Deno.inspect(error)); Deno.exit(1)
UncaughtLog == <<Line("error", "uncaught error")>>

\* buildRepomixArgs: the warning of its catch around the read of the config file
BuildLog(config, disk) ==
  IF Truthy(ConfigPathOf(config))
     /\ ~(ConfigPathOf(config) \in disk /\ ConfigPathOf(config) \in DOMAIN DiskConfigs)
  THEN <<Line("warn", "Failed to read repomix config file")>>
  ELSE <<>>

-----------------------------------------------------------------------------
(* runRepomix, one mix at a time *)

IsBooleanFlag(flag) == flag \in Range(REPOMIX_BOOLEAN_FLAGS)

\* as InvalidFlags, with every flag that starts with `--` taken as valid
InvalidFlags_AnyDashed(config) ==
  SelectSeq(config.extraFlags, LAMBDA f : ~StartsWith(f, "--"))

\* config.extraFlags.filter((flag) => !REPOMIX_BOOLEAN_FLAGS.includes(flag))
InvalidFlags(config) == SelectSeq(config.extraFlags, LAMBDA f : ~IsBooleanFlag(f))

\* the external-config path whose existence runRepomix validates
ValidatedConfigPath(config) == config.repomixConfig

\* why runRepomix returns null before building the arguments ("none": it goes on)
ValidationError(config, disk) ==
  IF Truthy(ValidatedConfigPath(config)) /\ ValidatedConfigPath(config) \notin disk
  THEN "config-not-found"
  ELSE IF Len(config.extraFlags) > 0 /\ Len(InvalidFlags(config)) > 0
  THEN "invalid-flags"
  ELSE "none"

\* fullUrl?.includes('github.com') ? fullUrl.split('/').pop() : (fullUrl || 'local codebase')
RepoName(fullUrl) ==
  Bind(IF Truthy(fullUrl) /\ Includes(fullUrl, "github.com")
       THEN Bind(Split(fullUrl, "/"), LAMBDA parts : parts[Len(parts)])
       ELSE IF Truthy(fullUrl) THEN fullUrl ELSE "local codebase",
       LAMBDA name : IF name = "" THEN "unknown" ELSE name)

\* where the external tool writes when it writes: the path after `--output`,
\* its own default when it is given none
ToolTarget(args) ==
  Bind(args, LAMBDA a :
    Bind({k \in 1..(Len(a) - 1) : a[k] = "--output"}, LAMBDA hits :
      IF hits = {} THEN "repomix-output.xml" ELSE a[Max(hits) + 1]))

N == Len(configs)
Terminal == {"SUCCEEDED", "FAILED"}

\* runRepomix: the error it logs when a validation fails
ValidationLog(config, disk) ==
  IF ValidationError(config, disk) = "config-not-found"
  THEN <<Line("error", "Repomix config file not found: " \o config.repomixConfig)>>
  ELSE IF ValidationError(config, disk) = "invalid-flags"
  THEN <<Line("error", "Invalid flags in extraFlags: " \o JoinWith(InvalidFlags(config), ", "))>>
  ELSE <<>>

\* runRepomix: the warning it logs when the subprocess failed or left no file
VerifyLog(success, finalOutputPath, disk) ==
  IF ~success THEN <<Line("warn", "Repomix command failed")>>
  ELSE IF finalOutputPath \notin disk
  THEN <<Line("warn", "Repomix completed but no output file created at " \o finalOutputPath)>>
  ELSE <<>>

\* as StartMix, with runRepomix called and not awaited
StartMix_NotAwaited ==
  /\ pc = "loop"
  /\ cur <= N
  /\ phase[cur] = "PENDING"
  /\ phase' = [phase EXCEPT ![cur] = "VALIDATING"]
  /\ cur' = cur + 1
  /\ UNCHANGED <<out, envVars, files, fileLen, pc, toolCalls, toolExit, toolWrote, results,
                 ignoreVars, existingResults, tokenVars, argsVars>>

\* the loop of main takes the next mix: runRepomix is called
StartMix ==
  /\ pc = "loop"
  /\ cur <= N
  /\ phase[cur] = "PENDING"
  /\ phase' = [phase EXCEPT ![cur] = "VALIDATING"]
  /\ UNCHANGED <<out, envVars, files, fileLen, pc, cur, toolCalls, toolExit, toolWrote, results,
                 ignoreVars, existingResults, tokenVars, argsVars>>

\* as ValidateFail, but the failed validation ends the loop of main
ValidateFail_Halts ==
  /\ pc = "loop"
  /\ cur <= N
  /\ phase[cur] = "VALIDATING"
  /\ ValidationError(configs[cur], files) # "none"
  /\ phase' = [phase EXCEPT ![cur] = "FAILED"]
  /\ pc' = "failed"
  /\ out' = Logged(out, ValidationLog(configs[cur], files))
  /\ UNCHANGED <<envVars, files, fileLen, cur, toolCalls, toolExit, toolWrote, results,
                 ignoreVars, existingResults, tokenVars, argsVars>>

\* one of the two validations of runRepomix fails: it returns null, the loop
\* goes on
ValidateFail ==
  /\ pc = "loop"
  /\ cur <= N
  /\ phase[cur] = "VALIDATING"
  /\ ValidationError(configs[cur], files) # "none"
  /\ phase' = [phase EXCEPT ![cur] = "FAILED"]
  /\ cur' = cur + 1
  /\ out' = Logged(out, ValidationLog(configs[cur], files))
  /\ UNCHANGED <<envVars, files, fileLen, pc, toolCalls, toolExit, toolWrote, results,
                 ignoreVars, existingResults, tokenVars, argsVars>>

\* There is no catch around `await runRepomix(...)` in the loop of main, and
\* none inside runRepomix: an error thrown there rejects main, whose caller
\* logs it and exits with status 1.
OnUnexpectedError == "crashed"

\* the validations pass: the arguments are built, the output directory is
\* ensured and the tool is spawned; an error thrown there rejects runRepomix
ValidatePass ==
  /\ pc = "loop"
  /\ cur <= N
  /\ phase[cur] = "VALIDATING"
  /\ ValidationError(configs[cur], files) = "none"
  /\ IF unexpected[cur]
     THEN /\ IF OnUnexpectedError = "crashed"
             THEN pc' = "crashed" /\ cur' = cur /\ phase' = phase
             ELSE /\ pc' = pc
                  /\ cur' = cur + 1
                  /\ phase' = [phase EXCEPT ![cur] = "FAILED"]
          /\ UNCHANGED toolCalls
     ELSE /\ phase' = [phase EXCEPT ![cur] = "RUNNING"]
          /\ toolCalls' = [toolCalls EXCEPT ![cur] =
               Append(@, buildRepomixArgs(configs[cur], outputPath, files).args)]
          /\ UNCHANGED <<pc, cur>>
  /\ out' = Logged(out, BuildLog(configs[cur], files)
                          \o (IF unexpected[cur] THEN UncaughtLog ELSE <<>>))
  /\ UNCHANGED <<envVars, files, fileLen, toolExit, toolWrote, results, ignoreVars,
                 existingResults, tokenVars, argsVars>>

\* the subprocess ends: it reports success or not, and has written its output
\* file (a text of some length) or not: it may exit 0 having matched no file
ToolExits ==
  /\ pc = "loop"
  /\ cur <= N
  /\ phase[cur] = "RUNNING"
  /\ \E success \in BOOLEAN :
       toolExit' = [toolExit EXCEPT ![cur] = success]
  /\ \/ UNCHANGED <<files, fileLen, toolWrote>>
     \/ \E len \in ToolSizes :
          LET target == ToolTarget(toolCalls[cur][Len(toolCalls[cur])])
          IN  /\ files' = files \cup {target}
              /\ fileLen' = [q \in DOMAIN fileLen \cup {target} |->
                               IF q = target THEN len ELSE fileLen[q]]
              /\ toolWrote' = [toolWrote EXCEPT ![cur] = TRUE]
  /\ phase' = [phase EXCEPT ![cur] = "VERIFYING"]
  /\ UNCHANGED <<out, envVars, pc, cur, toolCalls, results, ignoreVars,
                 existingResults, tokenVars, argsVars>>

\* as VerifyOutcome, without the check that the output file exists
VerifyOutcome_ExitOnly(success, finalOutputPath, disk) == success

\* what runRepomix returns after the subprocess ended: TRUE for a result
\* with success: true, FALSE for null
VerifyOutcome(success, finalOutputPath, disk) ==
  success /\ finalOutputPath \in disk

\* as PushResult, with unshift for push
PushResult_Front(res, r) == <<r>> \o res

\* results.push({ repoName: result.repoName, outputPath: result.outputPath })
PushResult(res, r) == Append(res, r)

\* the exit status and the output file are verified; main pushes a success
Verify ==
  /\ pc = "loop"
  /\ cur <= N
  /\ phase[cur] = "VERIFYING"
  /\ LET b == buildRepomixArgs(configs[cur], outputPath, files)
     IN  IF VerifyOutcome(toolExit[cur], b.outputPath, files)
         THEN /\ phase' = [phase EXCEPT ![cur] = "SUCCEEDED"]
              /\ results' = PushResult(results,
                   [mix |-> cur, repoName |-> RepoName(b.fullUrl),
                    outputPath |-> b.outputPath])
         ELSE /\ phase' = [phase EXCEPT ![cur] = "FAILED"]
              /\ UNCHANGED results
  /\ cur' = cur + 1
  /\ out' = Logged(out, VerifyLog(toolExit[cur], FinalOutputPath(configs[cur], outputPath, files), files))
  /\ UNCHANGED <<envVars, files, fileLen, pc, toolCalls, toolExit, toolWrote, ignoreVars,
                 existingResults, tokenVars, argsVars>>

\* the loop is over
LoopEnd ==
  /\ pc = "loop"
  /\ cur > N
  /\ pc' = "ignore"
  /\ UNCHANGED <<out, envVars, files, fileLen, loopVars, ignoreVars, existingResults,
                 tokenVars, argsVars>>

-----------------------------------------------------------------------------
(* The ignore-file synchronizer: modifyIgnoreFile and updateIgnoreFiles *)

\* the content of a file that does not exist
Missing == "<missing>"

\* Deno.cwd()
Cwd == "/w"

\* the segments of a path, without the empty ones and the `.` ones
Segments(path) == SelectSeq(Split(path, "/"), LAMBDA seg : seg # "" /\ seg # ".")

\* the segments with every `..` applied to the segment before it
RECURSIVE DropDotDot(_, _)
DropDotDotOf(segs, acc) ==
  IF Len(segs) = 0 THEN acc
  ELSE IF segs[1] = ".."
       THEN DropDotDot(Tail(segs),
                       IF Len(acc) > 0 THEN SubSeq(acc, 1, Len(acc) - 1) ELSE acc)
       ELSE DropDotDot(Tail(segs), Append(acc, segs[1]))
DropDotDot(segs, acc) ==
  Bind(segs, LAMBDA s : Bind(acc, LAMBDA a : DropDotDotOf(s, a)))

\* @std/path resolve(path), as segments below the root directory
Resolve(path) ==
  DropDotDot(IF StartsWith(path, "/") THEN Segments(path)
             ELSE Segments(Cwd) \o Segments(path), <<>>)

\* the number of leading segments two paths share
RECURSIVE CommonLen(_, _)
CommonLenOf(a, b) ==
  IF Len(a) > 0 /\ Len(b) > 0 /\ a[1] = b[1]
  THEN 1 + CommonLen(Tail(a), Tail(b)) ELSE 0
CommonLen(a, b) == Bind(a, LAMBDA x : Bind(b, LAMBDA y : CommonLenOf(x, y)))

\* @std/path relative(from, to)
Relative(from, to) ==
  Bind(Resolve(from), LAMBDA f : Bind(Resolve(to), LAMBDA t :
    Bind(CommonLen(f, t), LAMBDA c :
      JoinWith([k \in 1..(Len(f) - c) |-> ".."] \o SubSeq(t, c + 1, Len(t)), "/"))))

\* `${normalizedPath}/**/*.xml`
ContextPattern(root) == ReplaceAll(Relative(Cwd, root), "\\", "/") \o "/**/*.xml"

\* The strings regexPattern accepts.  Every special character of the pattern
\* is escaped, so the pattern stands for itself:
\*   ^(?:\./)?(pattern | pattern with `**` as `*` | pattern without `**`)/?(?:\*?)?$
RegexAccepts(pattern) ==
  { pre \o body \o slash \o star :
      pre \in {"", "./"},
      body \in {pattern, ReplaceAll(pattern, "**", "*"), ReplaceAll(pattern, "**", "")},
      slash \in {"", "/"},
      star \in {"", "*"} }

\* regexPattern.test(line.trim())
LineMatches(line, accepted) == Trim(line) \in accepted

\* lines.some((line) => regexPattern.test(line.trim()))
PatternExists(content, pattern) ==
  Bind(RegexAccepts(pattern), LAMBDA accepted :
    \E line \in Range(Split(content, "\n")) : LineMatches(line, accepted))

\* the content of the file after modifyIgnoreFile(filePath, pattern,
\* shouldExist, contentToAdd); content is the content before it
modifyIgnoreFile(content, pattern, shouldExist, contentToAdd) ==
  IF content = Missing
  THEN IF shouldExist THEN Trim(contentToAdd) ELSE Missing
  ELSE Bind(PatternExists(content, pattern), LAMBDA patternExists :
         IF (shouldExist /\ ~patternExists) \/ (~shouldExist /\ patternExists)
         THEN content \o contentToAdd
         ELSE content)

IgnoreFileNames == {".gitignore", ".cursorignoreindex", ".cursorignore"}

\* the pattern updateIgnoreFiles keeps in each file
IgnorePattern(name, contextPattern) ==
  IF name = ".cursorignore" THEN "!" \o contextPattern ELSE contextPattern

\* the text updateIgnoreFiles appends to each file
IgnoreContentToAdd(name, contextPattern) ==
  IF name = ".cursorignore"
  THEN "\n# Include AI context files (auto-generated by the build-context script)\n"
       \o "!" \o contextPattern \o "\n"
  ELSE "\n# AI context files\n" \o contextPattern \o "\n"

\* the three ignore files after updateIgnoreFiles(root); ig maps each file
\* name to its content before
updateIgnoreFiles(ig, root) ==
  Bind(ContextPattern(root), LAMBDA contextPattern :
    [name \in IgnoreFileNames |->
       modifyIgnoreFile(ig[name], IgnorePattern(name, contextPattern), TRUE,
                        IgnoreContentToAdd(name, contextPattern))])

\* modifyIgnoreFile: `Created <file>` or `Updated <file>` for each file written
IgnoreLog(before, after) ==
  LET entry(name) ==
        IF before[name] = after[name] THEN <<>>
        ELSE IF before[name] = Missing THEN <<Line("log", "Created " \o name)>>
        ELSE <<Line("log", "Updated " \o name)>>
  IN  entry(".gitignore") \o entry(".cursorignoreindex") \o entry(".cursorignore")

\* main: await updateIgnoreFiles(outputPath)
UpdateIgnore ==
  /\ pc = "ignore"
  /\ ignore' = updateIgnoreFiles(ignore, outputPath)
  /\ ignoreHist' = Append(ignoreHist, [before |-> ignore, after |-> ignore'])
  /\ pc' = "filter"
  /\ out' = Logged(out, IgnoreLog(ignore, ignore'))
  /\ UNCHANGED <<envVars, files, fileLen, loopVars, existingResults, tokenVars,
                 argsVars, call>>

\* one more run of the synchronizer on the same output root
RunSync ==
  /\ pc = "sync"
  /\ Len(ignoreHist) < MaxRuns
  /\ ignore' = updateIgnoreFiles(ignore, outputPath)
  /\ ignoreHist' = Append(ignoreHist, [before |-> ignore, after |-> ignore'])
  /\ out' = Logged(out, IgnoreLog(ignore, ignore'))
  /\ UNCHANGED <<envVars, files, fileLen, pc, loopVars, existingResults,
                 tokenVars, argsVars, call>>

\* modifyIgnoreFile(filePath, pattern, shouldExist, contentToAdd, fileType)
\* called once more with the same arguments
Modify ==
  /\ pc = "modify"
  /\ Len(ignoreHist) < MaxRuns
  /\ ignore' = [ignore EXCEPT ![call.file] =
                  modifyIgnoreFile(@, call.pattern, call.shouldExist, call.contentToAdd)]
  /\ ignoreHist' = Append(ignoreHist, [before |-> ignore, after |-> ignore'])
  /\ out' = Logged(out, IgnoreLog(ignore, ignore'))
  /\ UNCHANGED <<envVars, files, fileLen, pc, loopVars, existingResults,
                 tokenVars, argsVars, call>>

-----------------------------------------------------------------------------
(* The token accounting engine *)

\* the size of the chunks readFileStreamChunks yields
ChunkSize == 8192

\* the sizes of the reads the stream of a file delivers: a text of one byte
\* per character, in reads of `size` bytes with a shorter last one
ReadSizes == {3000, 65536}
SourceReads(len, size) ==
  [k \in 1..((len + size - 1) \div size) |->
     IF k * size <= len THEN size ELSE len - (k - 1) * size]

\* A chunk is the span <<from, to>> of the text it holds: text.slice(from, to).
\* `buffer` is the span of the decoded text that is not yielded yet.
\* while (buffer.length >= 8192) { yield buffer.slice(0, 8192); buffer = buffer.slice(8192) }
Drain(from, to) ==
  [i \in 1..((to - from) \div ChunkSize) |->
     <<from + (i - 1) * ChunkSize, from + i * ChunkSize>>]

\* as Flush, for a reader that drops what is left in the buffer
Flush_Never(from, to) == <<>>

\* buffer += decoder.decode(); if (buffer) yield buffer
Flush(from, to) == IF to > from THEN << <<from, to>> >> ELSE <<>>

\* the transform of readFileStreamChunks on the reads that are still to
\* come, with text.slice(from, to) in its buffer
RECURSIVE TokenChunkTransform(_, _, _)
TokenChunkTransformOf(reads, from, to) ==
  IF Len(reads) = 0 THEN Flush(from, to)
  ELSE Drain(from, to + reads[1])
       \o TokenChunkTransform(Tail(reads),
             from + ((to + reads[1] - from) \div ChunkSize) * ChunkSize,
             to + reads[1])
TokenChunkTransform(reads, from, to) ==
  Bind(reads, LAMBDA s : Bind(from, LAMBDA f : Bind(to, LAMBDA t :
    TokenChunkTransformOf(s, f, t))))

\* the chunks readFileStreamChunks yields for a text of len characters
readFileStreamChunks(len, size) == TokenChunkTransform(SourceReads(len, size), 0, 0)

\* chunk.length of each chunk of a file of len characters
ChunkLens(len) ==
  Bind(readFileStreamChunks(len, readSize), LAMBDA chunks :
    [j \in 1..Len(chunks) |-> chunks[j][2] - chunks[j][1]])

\* the tokenizer, applied to a chunk of n characters: one token per character
countTokens(n) == n

\* basename(filePath, extname(filePath))
Label(filePath) == ParseName(filePath)

\* obj[key] = value on an object kept as its list of entries in insertion
\* order: an own key keeps its place and takes the new value (no label of the
\* model is an integer index, which JavaScript would list first)
PutEntry(obj, key, value) ==
  Bind([key |-> key, value |-> value], LAMBDA e :
    IF \E k \in 1..Len(obj) : obj[k].key = e.key
    THEN [k \in 1..Len(obj) |-> IF obj[k].key = e.key THEN e ELSE obj[k]]
    ELSE Append(obj, e))

\* as ExistingResults, without the existence check
ExistingResults_All(res, disk) == res

\* the files main filters out before counting: `await exists(result.outputPath)`
ExistingResults(res, disk) == SelectSeq(res, LAMBDA r : r.outputPath \in disk)

TaskInit(paths) ==
  /\ filePaths' = paths
  /\ taskPos' = [k \in 1..Len(paths) |-> 0]
  /\ taskTokens' = [k \in 1..Len(paths) |-> 0]
  /\ taskDone' = [k \in 1..Len(paths) |-> FALSE]
  /\ nextYield' = 1
  /\ result' = <<>>
  /\ totalTokens' = 0
  /\ report' = <<>>
  /\ entered' = <<>>
  /\ completed' = <<>>

\* main: a warning for each result whose file does not exist, and the error
\* before Deno.exit(1) when none exists
FilterLog(res, disk) ==
  [j \in 1..Len(SelectSeq(res, LAMBDA r : r.outputPath \notin disk)) |->
     Line("warn", "Output file does not exist: "
                    \o SelectSeq(res, LAMBDA r : r.outputPath \notin disk)[j].outputPath)]
  \o (IF ExistingResults(res, disk) = <<>>
      THEN <<Line("error", "No valid output files were created")>> ELSE <<>>)

\* main: the results whose file exists are kept; with none left the run exits
\* with status 1, otherwise countTokensInFiles starts one task per file
Filter ==
  /\ pc = "filter"
  /\ existingResults' = ExistingResults(results, files)
  /\ IF Len(existingResults') = 0
     THEN pc' = "failed" /\ UNCHANGED tokenVars
     ELSE /\ pc' = "count"
          /\ TaskInit([k \in 1..Len(existingResults') |-> existingResults'[k].outputPath])
  /\ out' = Logged(out, FilterLog(results, files))
  /\ UNCHANGED <<envVars, files, fileLen, loopVars, ignoreVars, argsVars>>

\* the task of file k reads its next chunk: fileTokens += countTokens(chunk)
TaskChunk(k) ==
  /\ pc = "count"
  /\ ~taskDone[k]
  /\ taskPos[k] < Len(ChunkLens(fileLen[filePaths[k]]))
  /\ taskPos' = [taskPos EXCEPT ![k] = @ + 1]
  /\ taskTokens' = [taskTokens EXCEPT ![k] =
                      @ + countTokens(ChunkLens(fileLen[filePaths[k]])[taskPos[k] + 1])]
  /\ UNCHANGED <<out, envVars, files, fileLen, pc, loopVars, ignoreVars,
                 existingResults, filePaths, taskDone, nextYield, result,
                 totalTokens, report, entered, completed, argsVars>>

\* the task of file k has read every chunk: its promise resolves
TaskReturn(k) ==
  /\ pc = "count"
  /\ ~taskDone[k]
  /\ taskPos[k] = Len(ChunkLens(fileLen[filePaths[k]]))
  /\ taskDone' = [taskDone EXCEPT ![k] = TRUE]
  /\ completed' = Append(completed, k)
  /\ UNCHANGED <<out, envVars, files, fileLen, pc, loopVars, ignoreVars,
                 existingResults, filePaths, taskPos, taskTokens, nextYield,
                 result, totalTokens, report, entered, argsVars>>

\* as YieldIndex, yielding whichever promise has resolved (completion order)
YieldIndex_AsCompleted ==
  IF \E k \in 1..Len(filePaths) : taskDone[k] /\ k \notin Range(entered)
  THEN Max({k \in 1..Len(filePaths) : taskDone[k] /\ k \notin Range(entered)})
  ELSE 0

\* the index of the promise fetchAllFileTokens may yield now (0: none): it
\* awaits the promises in the order of filePaths
YieldIndex == IF nextYield <= Len(filePaths) /\ taskDone[nextYield] THEN nextYield ELSE 0

\* fetchAllFileTokens yields the next count and countTokensInFiles takes it:
\* result[filename] = tokens; totalTokens += tokens
Consume ==
  /\ pc = "count"
  /\ YieldIndex # 0
  /\ LET k == YieldIndex
     IN  /\ result' = PutEntry(result, Label(filePaths[k]), taskTokens[k])
         /\ totalTokens' = totalTokens + taskTokens[k]
         /\ entered' = Append(entered, k)
         /\ nextYield' = nextYield + 1
  /\ UNCHANGED <<out, envVars, files, fileLen, pc, loopVars, ignoreVars,
                 existingResults, filePaths, taskPos, taskTokens, taskDone,
                 report, completed, argsVars>>

\* as getTokenColor, with each boundary belonging to the tier below it
getTokenColor_BoundaryBelow(tokens) ==
  IF tokens <= 60000 THEN "green"
  ELSE IF tokens <= 120000 THEN "yellow"
  ELSE IF tokens <= 200000 THEN "brightYellow"
  ELSE "red"

\* getTokenColor(tokens): the colour a count is shown in
getTokenColor(tokens) ==
  IF tokens < 60000 THEN "green"
  ELSE IF tokens < 120000 THEN "yellow"
  ELSE IF tokens < 200000 THEN "brightYellow"
  ELSE "red"

\* const { totalTokens, ...fileTokens } = tokensInFiles
FileTokens(rep) == SelectSeq(rep, LAMBDA e : e.key # "totalTokens")

\* Object.values(fileTokens).some((tokens) => tokens >= 60000)
HasHighTokenFiles(rep) == \E e \in Range(FileTokens(rep)) : e.value >= 60000

\* main: the token table, one row for each entry of fileTokens in the colour
\* of its count, the total, the token count warning and the closing line
ReportLog(rep) ==
  <<Line("log", "File | Tokens")>>
  \o [j \in 1..Len(FileTokens(rep)) |->
        Line("log", "row " \o FileTokens(rep)[j].key \o " "
                      \o getTokenColor(FileTokens(rep)[j].value))]
  \o <<Line("log", "Total Tokens")>>
  \o (IF HasHighTokenFiles(rep) THEN <<Line("log", "TOKEN COUNT WARNING")>> ELSE <<>>)
  \o <<Line("log", "Built files")>>

\* countTokensInFiles returns { ...result, totalTokens }
Finish ==
  /\ pc = "count"
  /\ nextYield > Len(filePaths)
  /\ report' = PutEntry(result, "totalTokens", totalTokens)
  /\ pc' = "done"
  /\ out' = Logged(out, ReportLog(report'))
  /\ UNCHANGED <<envVars, files, fileLen, loopVars, ignoreVars, existingResults,
                 filePaths, taskPos, taskTokens, taskDone, nextYield, result,
                 totalTokens, entered, completed, argsVars>>

ReportTotal(rep) == (CHOOSE e \in Range(rep) : e.key = "totalTokens").value

RECURSIVE SumValues(_)
SumValuesOf(entries) ==
  IF Len(entries) = 0 THEN 0 ELSE entries[1].value + SumValues(Tail(entries))
SumValues(entries) == Bind(entries, LAMBDA v : SumValuesOf(v))

-----------------------------------------------------------------------------
(* buildRepomixArgs on its own *)

NoBuilt == [args |-> <<>>, fullUrl |-> U, outputPath |-> U]

Build ==
  /\ pc = "args"
  /\ built = NoBuilt
  /\ built' = buildRepomixArgs(amix, outputPath, files)
  /\ out' = Logged(out, BuildLog(amix, files))
  /\ UNCHANGED <<envVars, files, fileLen, pc, loopVars, ignoreVars,
                 existingResults, tokenVars, amix>>

-----------------------------------------------------------------------------
(* loadConfig of src/load-config.ts, and main up to its loop *)

HYPERMIX_CONFIG_NAMES ==
  <<"hypermix.config.js", "hypermix.config.ts",
    "hypermix.config.json", "hypermix.config.jsonc">>

\* A JavaScript value as loadConfig and main inspect it: what parse(content)
\* gives for a .json/.jsonc file, module.default for a .js/.ts file.
\*   kind: "object", "array", "null", "string", "undefined", or "syntax-error"
\*         when the file cannot be parsed or imported
\*   mixesKind: for an object, its `mixes` is "absent", a "string" or an "array"
\*   mixes: the elements of the array (of `mixes`, or of the value itself)
\*   silent: for an object, its `silent` is true
Val(kind, mixesKind, mixes, silent) ==
  [kind |-> kind, mixesKind |-> mixesKind, mixes |-> mixes, silent |-> silent]

NotLoaded == Val("not-loaded", "absent", <<>>, FALSE)

\* resolvedConfigPath: --config, or the first of the names that exists in cwd
ResolvedConfigPath(src) ==
  IF Truthy(src.arg) THEN src.arg
  ELSE IF \E k \in 1..Len(HYPERMIX_CONFIG_NAMES) : HYPERMIX_CONFIG_NAMES[k] \in src.present
  THEN HYPERMIX_CONFIG_NAMES[Min({k \in 1..Len(HYPERMIX_CONFIG_NAMES) :
                                    HYPERMIX_CONFIG_NAMES[k] \in src.present})]
  ELSE U

Thrown(message) == [ok |-> FALSE, error |-> message, config |-> NotLoaded]
Returned(config) == [ok |-> TRUE, error |-> "", config |-> config]

\* the validation of a parsed .json/.jsonc configuration
JsonValidation(v) ==
  IF v.kind \notin {"object", "array"}
  THEN "Invalid configuration: config must be a non-null object"
  ELSE IF v.kind = "array" \/ v.mixesKind # "array"
  THEN "Invalid configuration: missing or invalid \"mixes\" array"
  ELSE "valid"

\* loadConfig(configPath): what it returns, or the error it throws
loadConfig(src) ==
  Bind(ResolvedConfigPath(src), LAMBDA path :
    IF path = U THEN Thrown("No config file found. Expected one of: "
                              \o JoinWith(HYPERMIX_CONFIG_NAMES, ", "))
    ELSE Bind(ToLower(ParseExt(path)), LAMBDA ext :
      IF ext \in {".ts", ".js"}
      THEN IF path \notin src.present \/ src.value.kind = "syntax-error"
           THEN Thrown("import failed")
           ELSE IF src.value.kind = "array"
           THEN Returned(Val("object", "array", src.value.mixes, FALSE))
           ELSE Returned(src.value)
      ELSE IF ext \in {".json", ".jsonc"}
      THEN IF path \notin src.present THEN Thrown("NotFound")
           ELSE IF src.value.kind = "syntax-error" THEN Thrown("SyntaxError")
           ELSE IF JsonValidation(src.value) # "valid" THEN Thrown(JsonValidation(src.value))
           ELSE Returned(src.value)
      ELSE Thrown("Unsupported config file type: " \o ext)))

\* main: show the help and exit(1) when no config file is found; any other
\* error of loadConfig is thrown on to main().catch
LoadConfig ==
  /\ pc = "start"
  /\ LET r == loadConfig(source)
     IN  IF r.ok
         THEN /\ loaded' = r.config
              /\ pc' = "banner"
              /\ UNCHANGED out
         ELSE /\ UNCHANGED loaded
              /\ IF Includes(r.error, "No config file found")
                 THEN /\ pc' = "aborted"
                      /\ out' = Logged(out, <<Line("error", "No configuration file found"),
                                              Line("error", ""), Line("log", "help")>>)
                 ELSE /\ pc' = "crashed"
                      /\ out' = Logged(out, UncaughtLog)
  /\ UNCHANGED <<source, argSilent, configs, outputPath, unexpected, readSize, files,
                 fileLen, loopVars, ignoreVars, existingResults, tokenVars, argsVars>>

\* as MixesUsable, for a main that takes a configuration without a `mixes`
\* array as one with no mixes
MixesUsable_Lenient(config) == TRUE

\* `hypermixConfig.mixes` can be mapped and iterated: main throws a TypeError
\* at `configs.map` (or at `.mixes` of null and undefined) when it cannot
MixesUsable(config) == config.kind = "object" /\ config.mixesKind = "array"

\* main between loadConfig and the loop: configs, the banner and the spinner
Banner ==
  /\ pc = "banner"
  /\ IF MixesUsable(loaded)
     THEN /\ configs' = loaded.mixes
          /\ pc' = "loop"
          /\ out' = Logged(out, <<Line("log", "----"),
                                  Line("log", "Hypermixing the following repos")>>)
                      \o (IF ~argSilent /\ ~loaded.silent
                          THEN <<Line("spinner", "Building context files...")>> ELSE <<>>)
          /\ cur' = 1
          /\ phase' = [k \in 1..Len(loaded.mixes) |-> "PENDING"]
          /\ toolCalls' = [k \in 1..Len(loaded.mixes) |-> <<>>]
          /\ toolExit' = [k \in 1..Len(loaded.mixes) |-> FALSE]
          /\ toolWrote' = [k \in 1..Len(loaded.mixes) |-> FALSE]
          /\ unexpected' = [k \in 1..Len(loaded.mixes) |-> FALSE]
          /\ UNCHANGED results
     ELSE /\ pc' = "crashed"
          /\ out' = Logged(out, (IF loaded.kind \in {"null", "undefined"} THEN <<>>
                                 ELSE <<Line("log", "----")>>) \o UncaughtLog)
          /\ UNCHANGED <<configs, unexpected, loopVars>>
  /\ UNCHANGED <<cliVars, outputPath, readSize, files, fileLen, ignoreVars,
                 existingResults, tokenVars, argsVars>>

\* environment: an output file is removed between the loop of main and its
\* existence check
Vanish ==
  /\ pc \in {"ignore", "filter"}
  /\ \E f \in files \cap DOMAIN fileLen : files' = files \ {f}
  /\ UNCHANGED <<envVars, fileLen, pc, loopVars, ignoreVars, existingResults,
                 tokenVars, argsVars, out>>

-----------------------------------------------------------------------------
(* Specifications *)

SeqsUpTo(S, n) == UNION {[1..k -> S] : k \in 1..n}

NoMix == Mix(U, <<>>, <<>>, U, U, U, <<>>)

LoopIdle(n) ==
  /\ cur = 1
  /\ phase = [k \in 1..n |-> "PENDING"]
  /\ toolCalls = [k \in 1..n |-> <<>>]
  /\ toolExit = [k \in 1..n |-> FALSE]
  /\ toolWrote = [k \in 1..n |-> FALSE]
  /\ results = <<>>

TokensIdle ==
  /\ filePaths = <<>>
  /\ taskPos = <<>> /\ taskTokens = <<>> /\ taskDone = <<>>
  /\ nextYield = 1
  /\ result = <<>> /\ totalTokens = 0 /\ report = <<>>
  /\ entered = <<>> /\ completed = <<>>

\* modifyIgnoreFile is not called on its own
NoCall == [file |-> U, pattern |-> U, shouldExist |-> TRUE, contentToAdd |-> U]

IgnoreIdle ==
  /\ ignore = [name \in IgnoreFileNames |-> Missing]
  /\ ignoreHist = <<>>
  /\ call = NoCall

ArgsIdle == amix = NoMix /\ built = NoBuilt

NoSource == [arg |-> U, present |-> {}, value |-> NotLoaded]

\* no configuration is loaded, nothing is written
CliIdle ==
  /\ source = NoSource
  /\ argSilent = FALSE
  /\ loaded = NotLoaded
  /\ out = <<>>

\* a run of main on a loaded configuration
Init ==
  /\ configs \in SeqsUpTo(MixSet, MaxMixes)
  /\ source = [arg |-> U, present |-> {"hypermix.config.json"},
               value |-> Val("object", "array", configs, FALSE)]
  /\ argSilent = FALSE
  /\ loaded = source.value
  /\ out = <<>>
  /\ outputPath = OutputRoot
  /\ unexpected \in [1..Len(configs) -> BOOLEAN]
  /\ readSize = Max(ReadSizes)
  /\ \E stale \in StaleFiles :
       /\ files = DOMAIN DiskConfigs \cup stale
       /\ fileLen = [q \in stale |-> 5]
  /\ pc = "loop"
  /\ LoopIdle(Len(configs))
  /\ existingResults = <<>>
  /\ IgnoreIdle /\ TokensIdle /\ ArgsIdle

Next ==
  \/ StartMix
  \/ ValidateFail
  \/ ValidatePass
  \/ ToolExits
  \/ Verify
  \/ LoopEnd
  \/ UpdateIgnore
  \/ Filter
  \/ \E k \in 1..Len(filePaths) : TaskChunk(k)
  \/ \E k \in 1..Len(filePaths) : TaskReturn(k)
  \/ Consume
  \/ Finish

Spec == Init /\ [][Next]_vars

\* the scheduling of the runtime: a continuation that is ready runs, and the
\* subprocess of a mix ends
FairSpec == Spec /\ WF_vars(Next)

\* buildRepomixArgs applied to one descriptor
InitArgs ==
  /\ CliIdle
  /\ configs = <<>>
  /\ outputPath \in ArgRoots
  /\ unexpected = <<>>
  /\ readSize = Max(ReadSizes)
  /\ files = DOMAIN DiskConfigs
  /\ fileLen = <<>>
  /\ pc = "args"
  /\ LoopIdle(0)
  /\ existingResults = <<>>
  /\ IgnoreIdle /\ TokensIdle
  /\ amix \in MixDomain
  /\ built = NoBuilt

SpecArgs == InitArgs /\ [][Build]_vars

\* the output roots the synchronizer is run on: the default, an absolute
\* one, one outside the working directory, one whose name starts with a space
SyncRoots == {".hypermix", "/w/out/ctx", "../shared", " out"}

\* the states an ignore file is found in: missing, empty, without the
\* pattern, with it (as written, padded, with `./`, with `/`, with `*` for
\* `**`, without `**`, with a `*` after it, with CRLF), commented out
IgnoreContents(pattern) ==
  { Missing, "", "node_modules\n", "node_modules",
    pattern \o "\n",
    "# kept\n" \o pattern,
    "  ./" \o pattern \o "/  \n",
    ReplaceAll(pattern, "**", "*") \o "\n",
    ReplaceAll(pattern, "**", "") \o "*\n",
    "dist\r\n" \o pattern \o "\r\n",
    "#" \o pattern \o "\n",
    "x" \o pattern \o "\n",
    pattern \o "\n" \o pattern \o "\n" }

\* updateIgnoreFiles run again and again on the same output root
InitSync ==
  /\ CliIdle
  /\ configs = <<>>
  /\ outputPath \in SyncRoots
  /\ unexpected = <<>>
  /\ readSize = Max(ReadSizes)
  /\ files = {}
  /\ fileLen = <<>>
  /\ pc = "sync"
  /\ LoopIdle(0)
  /\ existingResults = <<>>
  /\ \E g \in IgnoreContents(IgnorePattern(".gitignore", ContextPattern(outputPath))),
        x \in IgnoreContents(IgnorePattern(".cursorignoreindex", ContextPattern(outputPath))),
        c \in IgnoreContents(IgnorePattern(".cursorignore", ContextPattern(outputPath))) :
       ignore = [name \in IgnoreFileNames |->
                   IF name = ".gitignore" THEN g
                   ELSE IF name = ".cursorignoreindex" THEN x ELSE c]
  /\ ignoreHist = <<>>
  /\ call = NoCall
  /\ TokensIdle /\ ArgsIdle

SpecSync == InitSync /\ [][RunSync]_vars

\* the rules modifyIgnoreFile is called with: a plain one, the two of
\* updateIgnoreFiles, one that starts with a space
ModifyPatterns == {"test-pattern", ".hypermix/**/*.xml", "!.hypermix/**/*.xml", " out/**/*.xml"}

\* the texts it is given to append for a rule: the rule under a comment, as
\* updateIgnoreFiles builds it, and the negation of the rule
ModifyTexts(pattern) == {"\n# AI context files\n" \o pattern \o "\n", "\n!" \o pattern \o "\n"}

\* modifyIgnoreFile called again and again with the same arguments on one file
InitModify ==
  /\ CliIdle
  /\ configs = <<>>
  /\ outputPath = OutputRoot
  /\ unexpected = <<>>
  /\ readSize = Max(ReadSizes)
  /\ files = {}
  /\ fileLen = <<>>
  /\ pc = "modify"
  /\ LoopIdle(0)
  /\ existingResults = <<>>
  /\ \E pattern \in ModifyPatterns, shouldExist \in BOOLEAN :
       \E text \in ModifyTexts(pattern), content \in IgnoreContents(pattern) :
         /\ call = [file |-> ".gitignore", pattern |-> pattern,
                    shouldExist |-> shouldExist, contentToAdd |-> text]
         /\ ignore = [name \in IgnoreFileNames |->
                        IF name = ".gitignore" THEN content ELSE Missing]
  /\ ignoreHist = <<>>
  /\ TokensIdle /\ ArgsIdle

SpecModify == InitModify /\ [][Modify]_vars

\* the output files countTokensInFiles is given, and the lengths of their texts
CountedPaths ==
  { ".hypermix/codebase.xml", ".hypermix/owner/repo-a.xml",
    ".hypermix/other/repo-a.xml" }
FileSizes == {0, 5, 8195, 40960}

\* countTokensInFiles on a list of existing files
InitTokens ==
  /\ CliIdle
  /\ configs = <<>>
  /\ outputPath = OutputRoot
  /\ unexpected = <<>>
  /\ readSize \in ReadSizes
  /\ filePaths \in SeqsUpTo(CountedPaths, MaxFiles)
  /\ files = Range(filePaths)
  /\ fileLen \in [Range(filePaths) -> FileSizes]
  /\ pc = "count"
  /\ LoopIdle(0)
  /\ existingResults = <<>>
  /\ IgnoreIdle /\ ArgsIdle
  /\ taskPos = [k \in 1..Len(filePaths) |-> 0]
  /\ taskTokens = [k \in 1..Len(filePaths) |-> 0]
  /\ taskDone = [k \in 1..Len(filePaths) |-> FALSE]
  /\ nextYield = 1
  /\ result = <<>> /\ totalTokens = 0 /\ report = <<>>
  /\ entered = <<>> /\ completed = <<>>

NextTokens ==
  \/ \E k \in 1..Len(filePaths) : TaskChunk(k)
  \/ \E k \in 1..Len(filePaths) : TaskReturn(k)
  \/ Consume
  \/ Finish

SpecTokens == InitTokens /\ [][NextTokens]_vars

\* the output files of a report: those, and one named as the total is
ReportPaths == CountedPaths \cup {".hypermix/totalTokens.xml"}

\* the token counts on both sides of each boundary of getTokenColor
TierSizes == {5, 59999, 60000, 119999, 120000, 199999, 200000}

\* countTokensInFiles when every file has been read: the counts are taken
\* and the report is printed
InitReport ==
  /\ CliIdle
  /\ configs = <<>>
  /\ outputPath = OutputRoot
  /\ unexpected = <<>>
  /\ readSize = Max(ReadSizes)
  /\ filePaths \in SeqsUpTo(ReportPaths, MaxFiles)
  /\ files = Range(filePaths)
  /\ fileLen \in [Range(filePaths) -> TierSizes]
  /\ pc = "count"
  /\ LoopIdle(0)
  /\ existingResults = <<>>
  /\ IgnoreIdle /\ ArgsIdle
  /\ taskPos = [k \in 1..Len(filePaths) |-> Len(ChunkLens(fileLen[filePaths[k]]))]
  /\ taskTokens = [k \in 1..Len(filePaths) |-> fileLen[filePaths[k]]]
  /\ taskDone = [k \in 1..Len(filePaths) |-> TRUE]
  /\ nextYield = 1
  /\ result = <<>> /\ totalTokens = 0 /\ report = <<>>
  /\ entered = <<>>
  /\ completed = [k \in 1..Len(filePaths) |-> k]

NextReport ==
  \/ Consume
  \/ Finish

SpecReport == InitReport /\ [][NextReport]_vars

\* the mix lists the configuration files hold
CliMixLists ==
  { <<>>,
    <<Mix(U, <<>>, <<>>, U, U, U, <<>>)>>,
    <<Mix("owner/repoB", <<>>, <<>>, U, U, U, <<"--bogus-flag">>),
      Mix("owner/repoA", <<>>, <<>>, U, U, U, <<>>)>>,
    <<Mix("owner/repoA", <<>>, <<>>, U, U, U, <<>>),
      Mix(U, <<>>, <<>>, U, U, U, <<>>)>>,
    <<Mix(U, <<"src/**">>, <<>>, U, U, U, <<>>),
      Mix("https://gitlab.com/o/r", <<>>, <<>>, U, U, U, <<>>)>>,
    <<Mix(U, <<"docs/**">>, <<>>, "My_Docs.xml", U, U, <<>>),
      Mix(U, <<"api/**">>, <<>>, "my docs.xml", U, U, <<>>)>>,
    <<Mix(U, <<>>, <<>>, U, "repomix.config.json", "bare.config.json", <<>>)>> }

\* the values a configuration file holds or exports
CliValues ==
  { Val("object", "array", m, sil) : m \in CliMixLists, sil \in BOOLEAN }
  \cup { Val("array", "absent", m, FALSE) : m \in CliMixLists }
  \cup { Val("object", "absent", <<>>, FALSE), Val("object", "absent", <<>>, TRUE),
         Val("object", "string", <<>>, FALSE),
         Val("null", "absent", <<>>, FALSE), Val("string", "absent", <<>>, FALSE),
         Val("undefined", "absent", <<>>, FALSE),
         Val("syntax-error", "absent", <<>>, FALSE) }

\* where the configuration is looked for: --config and the files in cwd
CliPlaces ==
  { <<U, {}>>,
    <<U, {"hypermix.config.json"}>>,
    <<U, {"hypermix.config.ts", "hypermix.config.jsonc"}>>,
    <<"conf/My.Config.JSONC", {"conf/My.Config.JSONC", "hypermix.config.js"}>>,
    <<"mixes.js", {"mixes.js"}>>,
    <<"missing.json", {"hypermix.config.json"}>>,
    <<"hypermix.yaml", {"hypermix.yaml"}>> }

\* the values a file of each kind can hold: a JSON text has no `undefined`
CliSources ==
  { [arg |-> pl[1], present |-> pl[2], value |-> v] : pl \in CliPlaces, v \in CliValues }

\* a run of main from its start
InitCli ==
  /\ source \in CliSources
  /\ argSilent \in BOOLEAN
  /\ loaded = NotLoaded
  /\ out = <<>>
  /\ configs = <<>>
  /\ outputPath = OutputRoot
  /\ unexpected = <<>>
  /\ readSize = Max(ReadSizes)
  /\ files = DOMAIN DiskConfigs
  /\ fileLen = <<>>
  /\ pc = "start"
  /\ LoopIdle(0)
  /\ existingResults = <<>>
  /\ IgnoreIdle /\ TokensIdle /\ ArgsIdle

NextCli ==
  \/ LoadConfig
  \/ Banner
  \/ Vanish
  \/ Next

SpecCli == InitCli /\ [][NextCli]_vars

-----------------------------------------------------------------------------
(* Claims *)

HasExternalConfig(config) == config.config # U \/ config.repomixConfig # U

\* C1: the argument list buildRepomixArgs builds holds `--output` if and only
\* if the mix has no external config path (neither config nor repomixConfig)
C1_OutputFlagIffNoExternalConfig ==
  built # NoBuilt =>
    (("--output" \in Range(built.args)) <=> ~HasExternalConfig(amix))

NoUnexpectedError == \A k \in 1..N : ~unexpected[k]
AllTerminal == \A k \in 1..N : phase[k] \in Terminal

\* C2: whatever mixes fail validation, exit non-zero or leave no output file,
\* every mix of the list is processed exactly once: the tool is spawned at
\* most once per mix, and eventually every mix has a terminal outcome
C2_EveryMixProcessedOnce ==
  NoUnexpectedError =>
    /\ [](\A k \in 1..N : Len(toolCalls[k]) <= 1)
    /\ <>AllTerminal

\* a run of two mixes, without unexpected errors, whose first mix failed and
\* whose second mix was still run to a terminal outcome
C2_Witness ==
  /\ N = 2
  /\ NoUnexpectedError
  /\ phase[1] = "FAILED"
  /\ Len(toolCalls[2]) = 1
  /\ phase[2] \in Terminal

\* C3: an unexpected error raised for one mix is converted into a failed
\* outcome for that mix and never aborts the run
C3_UnexpectedErrorContained ==
  /\ pc # "crashed"
  /\ \A k \in 1..N :
       (unexpected[k] /\ ValidationError(configs[k], files) = "none" /\ cur > k)
         => phase[k] = "FAILED"

Indexes(n) == [k \in 1..n |-> k]
MixesOf(res) == [j \in 1..Len(res) |-> res[j].mix]

\* the mixes whose outcome is success, in the order of the mix list
SucceededInOrder == SelectSeq(Indexes(N), LAMBDA k : phase[k] = "SUCCEEDED")

\* C4: the reported outcomes are exactly the successful mixes, each once, in
\* the relative order of the input mix list
C4_OutcomesAreSuccessesInOrder ==
  /\ MixesOf(results) = SucceededInOrder
  /\ pc \in {"count", "done", "failed"} => MixesOf(existingResults) = SucceededInOrder

\* a finished run in which a mix failed and two mixes are reported, or one
\* failed before the one reported
C4_Witness ==
  /\ pc = "done"
  /\ N = 2
  /\ phase[1] = "FAILED"
  /\ MixesOf(existingResults) = <<2>>

\* C5: a mix's outcome is success if and only if it passed validation, the
\* tool exited with status 0 and the resolved output file exists at
\* verification (stated of the step that gives the mix its outcome)
C5_Step ==
  \A k \in 1..N :
    (phase[k] \notin Terminal /\ phase'[k] \in Terminal) =>
      (phase'[k] = "SUCCEEDED" <=>
         /\ phase[k] = "VERIFYING"
         /\ ValidationError(configs[k], files) = "none"
         /\ toolExit[k]
         /\ FinalOutputPath(configs[k], outputPath, files) \in files)
C5_SuccessIffExitZeroAndFile == [][C5_Step]_vars

\* a mix failed although its tool exited 0: its output file is absent
C5_Witness ==
  \E k \in 1..N :
    /\ phase[k] = "FAILED"
    /\ Len(toolCalls[k]) = 1
    /\ toolExit[k]
    /\ FinalOutputPath(configs[k], outputPath, files) \notin files

\* an external-config reference of the mix names a file that is not on disk
ExternalConfigMissing(config, disk) ==
  \/ Truthy(config.config) /\ config.config \notin disk
  \/ Truthy(config.repomixConfig) /\ config.repomixConfig \notin disk

\* C6: a mix whose external-config reference (config or repomixConfig) names
\* a missing file fails in validation: the tool is never invoked for it
C6_MissingConfigNeverRuns ==
  \A k \in 1..N :
    ExternalConfigMissing(configs[k], files) =>
      /\ toolCalls[k] = <<>>
      /\ phase[k] \in {"PENDING", "VALIDATING", "FAILED"}

HasDisallowedFlag(config) == \E f \in Range(config.extraFlags) : ~IsBooleanFlag(f)

\* C7: a mix with an extra flag outside the allow-list fails in validation
\* with no invocation of the tool, and only that mix fails: the step that
\* fails it hands the loop to the next mix, and a valid mix before or after
\* it is run once
C7_State ==
  \A k \in 1..N :
    /\ HasDisallowedFlag(configs[k]) =>
         /\ toolCalls[k] = <<>>
         /\ phase[k] \in {"PENDING", "VALIDATING", "FAILED"}
         /\ cur > k => phase[k] = "FAILED"
    /\ (ValidationError(configs[k], files) = "none" /\ cur > k) =>
         /\ Len(toolCalls[k]) = 1
         /\ phase[k] \in Terminal
C7_Step ==
  \A k \in 1..N :
    (HasDisallowedFlag(configs[k]) /\ phase[k] = "VALIDATING" /\ phase'[k] # phase[k]) =>
      /\ phase'[k] = "FAILED"
      /\ pc' = "loop"
      /\ cur' = k + 1
      /\ toolCalls' = toolCalls
      /\ results' = results
C7_DisallowedFlagFailsOnlyItsMix == []C7_State /\ [][C7_Step]_vars

\* the mix with the disallowed flag comes first and failed without a tool
\* call, and the valid mix after it ran and succeeded
C7_Witness ==
  /\ N = 2
  /\ HasDisallowedFlag(configs[1])
  /\ phase[1] = "FAILED"
  /\ toolCalls[1] = <<>>
  /\ ~HasDisallowedFlag(configs[2])
  /\ Len(toolCalls[2]) = 1
  /\ phase[2] = "SUCCEEDED"

\* C8: the total of the token report equals the sum of its per-file entries
C8_TotalIsSumOfEntries ==
  report # <<>> => ReportTotal(report) = SumValues(FileTokens(report))

\* C9: the per-file counts enter the report in the order of the input path
\* list, whatever the order in which the counts complete
C9_EnteredInInputOrder ==
  /\ entered = Indexes(Len(entered))
  /\ \A j \in 1..Len(entered) : taskDone[entered[j]]
  /\ report # <<>> => entered = Indexes(Len(filePaths))

\* the report is made, and the counts completed in another order than the
\* order of the input list
C9_Witness ==
  /\ report # <<>>
  /\ Len(filePaths) >= 2
  /\ completed # Indexes(Len(filePaths))

\* the number of lines of a file that hold the pattern
MatchCount(content, pattern) ==
  IF content = Missing THEN 0
  ELSE LET lines == Split(content, "\n")
           accepted == RegexAccepts(pattern)
       IN  Cardinality({j \in 1..Len(lines) : LineMatches(lines[j], accepted)})

\* C10: every further run of updateIgnoreFiles on the same output root leaves
\* each of the three files byte-identical to its content after the first run,
\* whatever the file held before (a missing file included), and no further
\* run adds a line with the pattern
C10_SyncIdempotent ==
  \A j \in 2..Len(ignoreHist) :
    \A name \in IgnoreFileNames :
      /\ ignoreHist[j].after[name] = ignoreHist[1].after[name]
      /\ MatchCount(ignoreHist[j].after[name], IgnorePattern(name, ContextPattern(outputPath)))
           = MatchCount(ignoreHist[1].after[name], IgnorePattern(name, ContextPattern(outputPath)))

\* the run has ended with a failure status: Deno.exit(1)
RunFailed == pc \in {"failed", "crashed"}

\* a mix has outcome success and its output file is on disk
ProducedOutput(k) ==
  /\ phase[k] = "SUCCEEDED"
  /\ FinalOutputPath(configs[k], outputPath, files) \in files

\* C11: the run signals failure if and only if no mix produced an existing
\* output file: with one mix succeeded no number of failed mixes makes the
\* run fail, and tokens are counted only with at least one output file
C11_FailureIffNoOutput ==
  /\ RunFailed => ~ \E k \in 1..N : ProducedOutput(k)
  /\ pc = "done" => \E k \in 1..N : ProducedOutput(k)
  /\ pc \in {"count", "done"} =>
       /\ Len(filePaths) >= 1
       /\ \A j \in 1..Len(filePaths) : filePaths[j] \in files

\* the external config path of a mix
ExternalConfigPath(config) == IF config.config # U THEN config.config ELSE config.repomixConfig

\* the output location each config file on disk declares ("none": it
\* declares none, or there is no such file)
DeclaredOutput(path) == IF path = "repomix.config.json" THEN "custom/out.xml" ELSE "none"

\* the explicit outputs, with the file name in lowercase-hyphen form
NormalizedOutput(o) ==
  IF o = "Docs.xml" THEN "docs.xml"
  ELSE IF o = "sub/My_Report File.XML" THEN "sub/my-report-file.XML"
  ELSE o

\* C13: with an external config path the resolved path is the output
\* location the file declares, or <root>/codebase.xml when it declares none,
\* whatever `output` and `remote` are; without one and with an explicit
\* output it is <root>/<output> with the file name in lowercase-hyphen form,
\* whatever `remote` is
C13_OutputPathPrecedence ==
  built # NoBuilt =>
    IF HasExternalConfig(amix)
    THEN built.outputPath =
           IF DeclaredOutput(ExternalConfigPath(amix)) # "none"
           THEN DeclaredOutput(ExternalConfigPath(amix))
           ELSE Join(outputPath, "codebase.xml")
    ELSE amix.output # U =>
           built.outputPath = Join(outputPath, NormalizedOutput(amix.output))

\* an external config governs the path although an explicit output and a
\* remote are set
C13_Witness ==
  /\ built # NoBuilt
  /\ amix.config = "repomix.config.json"
  /\ amix.output = "Docs.xml"
  /\ amix.remote = "owner/repoA"
  /\ built.outputPath = "custom/out.xml"

\* C14: a mix with remote owner/repo, no explicit output and no external
\* config resolves to <root>/<owner>/<repo>.xml, the segments as written
C14_RemotePathAsWritten ==
  (built # NoBuilt /\ amix.remote = "owner/repoA" /\ amix.output = U /\ ~HasExternalConfig(amix)) =>
    built.outputPath = Join(outputPath, "owner/repoA.xml")

\* C15: a mix with no remote, no explicit output and no external config
\* resolves to <root>/codebase.xml, for every root
C15_LocalDefaultPath ==
  (built # NoBuilt /\ amix.remote = U /\ amix.output = U /\ ~HasExternalConfig(amix)) =>
    built.outputPath = Join(outputPath, "codebase.xml")

C15_Witness ==
  /\ built # NoBuilt
  /\ amix.remote = U /\ amix.output = U /\ ~HasExternalConfig(amix)
  /\ outputPath = "/w/Out Dir"
  /\ built.outputPath = "/w/Out Dir/codebase.xml"

\* the `--remote` part of the command line as the shape gives it
ShapeRemote(config) ==
  IF config.remote = U THEN <<>>
  ELSE IF StartsWith(config.remote, "http") THEN <<"--remote", config.remote>>
  ELSE <<"--remote", "https://github.com/" \o config.remote>>

ShapeInclude(config) ==
  <<"--include", IF config.include = <<>> THEN "**/*" ELSE JoinWith(config.include, ",")>>

ShapeIgnore(config) ==
  IF config.ignore = <<>> THEN <<>> ELSE <<"--ignore", JoinWith(config.ignore, ",")>>

\* C17: the command line is
\*   repomix [--remote <url>] --include <csv> [--ignore <csv>] [--config <path>]
\*   <default flags> <extra flags> [--output <path>]
\* in that order, with --remote iff a remote is set (expanded to a github URL
\* unless it starts with http), --include always (`**/*` without patterns)
\* and --ignore iff there are ignore patterns
C17_CommandShape ==
  built # NoBuilt =>
    \E cfg \in {<<>>, <<"--config", ExternalConfigPath(amix)>>} :
      \E output \in {<<>>, <<"--output", built.outputPath>>} :
        built.args = <<"repomix">> \o ShapeRemote(amix) \o ShapeInclude(amix)
                       \o ShapeIgnore(amix) \o cfg
                       \o REPOMIX_DEFAULT_FLAGS \o amix.extraFlags \o output

\* a shorthand remote is expanded, and every optional part is present
C17_Witness ==
  /\ built # NoBuilt
  /\ amix.remote = "owner/repoA"
  /\ amix.include = <<"src/**", "*.md">>
  /\ amix.ignore = <<"dist">>
  /\ amix.config = "repomix.config.json"
  /\ amix.extraFlags = <<"--compress">>
  /\ SubSeq(built.args, 1, 9) =
       <<"repomix", "--remote", "https://github.com/owner/repoA",
         "--include", "src/**,*.md", "--ignore", "dist",
         "--config", "repomix.config.json">>

\* C16: the mixes run one after the other in declaration order: at most one
\* subprocess runs at a time, and a mix is started, and its subprocess
\* spawned, only after every mix before it has its outcome
C16_StrictlySequential ==
  /\ Cardinality({k \in 1..N : phase[k] = "RUNNING"}) <= 1
  /\ \A k \in 1..N :
       (phase[k] # "PENDING" \/ toolCalls[k] # <<>>) =>
         \A i \in 1..(k - 1) : phase[i] \in Terminal

\* the subprocess of the second mix runs, that of the first has ended
C16_Witness ==
  /\ N = 2
  /\ Len(toolCalls[1]) = 1
  /\ phase[1] \in Terminal
  /\ phase[2] = "RUNNING"

\* the number of lines of the console that are `line`
Written(line) == Cardinality({i \in DOMAIN out : out[i] = line})

\* C12: a mix whose output file is absent, at verification or at the
\* existence check after the loop, is left out of the token accounting: the
\* files counted are those of the successful mixes whose file exists, in the
\* order of the results, and each file left out has its warning
C12_AbsentOutputExcluded ==
  /\ \A k \in 1..N :
       (phase[k] = "FAILED" /\ Len(toolCalls[k]) = 1 /\ toolExit[k]) =>
         Written(Line("warn", "Repomix completed but no output file created at "
                                \o FinalOutputPath(configs[k], outputPath, files))) >= 1
  /\ pc \in {"count", "done", "failed"} =>
       /\ existingResults = SelectSeq(results, LAMBDA r : r.outputPath \in files)
       /\ \A j \in 1..Len(existingResults) : phase[existingResults[j].mix] = "SUCCEEDED"
       /\ pc # "failed" =>
            filePaths = [j \in 1..Len(existingResults) |-> existingResults[j].outputPath]
       /\ \A j \in 1..Len(results) :
            results[j].outputPath \notin files =>
              Written(Line("warn", "Output file does not exist: " \o results[j].outputPath))
                = Cardinality({i \in 1..Len(results) :
                                 results[i].outputPath = results[j].outputPath})
  /\ report # <<>> =>
       \A e \in Range(FileTokens(report)) :
         \E j \in 1..Len(filePaths) : Label(filePaths[j]) = e.key /\ filePaths[j] \in files

\* two mixes succeeded, the file of the first was removed before the
\* existence check, and the report holds the second alone
C12_Witness ==
  /\ pc = "done"
  /\ Len(results) = 2
  /\ results[1].outputPath \notin files
  /\ MixesOf(existingResults) = <<2>>
  /\ Len(FileTokens(report)) = 1

\* the run is silent: --silent or -s was given, or the configuration has
\* silent: true
Silent == argSilent \/ loaded.silent

\* C18: in silent mode, by the flag or by the configuration, no
\* informational output is written, and every warning and error is: each
\* failed mix has its line
C18_SilentSuppressesInfoOnly ==
  Silent =>
    /\ \A i \in DOMAIN out : out[i].level \in {"warn", "error"}
    /\ Cardinality({i \in DOMAIN out : out[i].level \in {"warn", "error"}})
         >= Cardinality({k \in 1..N : phase[k] = "FAILED"})

\* no configuration source is found
NoSourceFound(src) ==
  IF src.arg # U THEN src.arg \notin src.present
  ELSE \A k \in 1..Len(HYPERMIX_CONFIG_NAMES) : HYPERMIX_CONFIG_NAMES[k] \notin src.present

\* the top-level value is not a configuration: it is no object, or an object
\* whose `mixes` is no array
Malformed(v) ==
  \/ v.kind \in {"null", "string", "undefined", "syntax-error"}
  \/ v.kind = "object" /\ v.mixesKind # "array"

C20_LoadedMixesNonEmpty ==
  loaded # NotLoaded =>
    /\ loaded.kind = "object"
    /\ loaded.mixesKind = "array"
    /\ Len(loaded.mixes) >= 1
    /\ loaded.mixes = source.value.mixes

\* the transitions of a mix: PENDING -> VALIDATING -> RUNNING -> VERIFYING ->
\* SUCCEEDED or FAILED, with FAILED also from VALIDATING and from RUNNING
PhaseMoves ==
  { <<"PENDING", "VALIDATING">>, <<"VALIDATING", "RUNNING">>,
    <<"RUNNING", "VERIFYING">>, <<"VERIFYING", "SUCCEEDED">>,
    <<"VALIDATING", "FAILED">>, <<"RUNNING", "FAILED">>, <<"VERIFYING", "FAILED">> }

\* the outcomes main holds for mix k
OutcomesOf(res, k) == SelectSeq(res, LAMBDA r : r.mix = k)

C21_State ==
  \A k \in 1..N :
    /\ Len(toolCalls[k]) <= 1
    /\ toolCalls[k] # <<>> => phase[k] \in {"RUNNING", "VERIFYING", "SUCCEEDED", "FAILED"}
    /\ phase[k] \in {"VERIFYING", "SUCCEEDED"} => Len(toolCalls[k]) = 1
    /\ Len(OutcomesOf(results, k)) = (IF phase[k] = "SUCCEEDED" THEN 1 ELSE 0)
    /\ pc # "loop" => phase[k] \in Terminal
C21_Step ==
  \A k \in 1..N :
    /\ phase'[k] # phase[k] => <<phase[k], phase'[k]>> \in PhaseMoves
    /\ toolCalls'[k] # toolCalls[k] =>
         /\ phase[k] = "VALIDATING" /\ phase'[k] = "RUNNING"
         /\ Len(toolCalls'[k]) = Len(toolCalls[k]) + 1
    /\ phase[k] \in Terminal => OutcomesOf(results', k) = OutcomesOf(results, k)

\* C21: each mix moves only forward through PENDING, VALIDATING, RUNNING,
\* VERIFYING and then SUCCEEDED or FAILED; SUCCEEDED is reached only from
\* VERIFYING and FAILED only from VALIDATING, RUNNING or VERIFYING; both are
\* terminal and no mix is retried; the tool is invoked only as the mix is
\* RUNNING and at most once; a mix has one outcome, which is never changed:
\* when the loop of main is left, every mix is SUCCEEDED or FAILED
C21_MixLifecycle == []C21_State /\ [][C21_Step]_vars

\* the run of main has ended: normally, by Deno.exit(1), or by an uncaught error
RunEnded == pc \in {"done", "failed", "crashed"}

\* countTokensInFiles has been called
CountingStarted == filePaths # <<>> \/ report # <<>>

C22_State ==
  /\ Len(ignoreHist) <= 1
  /\ ignoreHist # <<>> => AllTerminal /\ cur > N
  /\ ignoreHist = <<>> => ~CountingStarted /\ existingResults = <<>>
  /\ RunEnded => Len(ignoreHist) = 1
C22_Step ==
  (ignore' # ignore \/ ignoreHist' # ignoreHist) =>
    /\ AllTerminal
    /\ phase' = phase /\ toolCalls' = toolCalls
    /\ ~CountingStarted

\* C22: the ignore files are synchronized exactly once in every run that got
\* past the loading of the configuration, after every mix has its terminal
\* outcome and before the token counting, whatever the outcomes; no write of
\* an ignore file happens while a mix is being executed
C22_SyncOnceAfterAllMixes == []C22_State /\ [][C22_Step]_vars

\* the rule stands on a line of the text: as written, with a leading `./`,
\* with a trailing `/`, or with `*` in place of `**`
RulePresent(content, pattern) ==
  content # Missing /\
  \E line \in Range(Split(content, "\n")) :
    line \in {pattern, "./" \o pattern, pattern \o "/", ReplaceAll(pattern, "**", "*")}

\* C23: modifyIgnoreFile never rewrites or removes existing text: the content
\* an existing file had is a prefix of its content after the call, and when
\* the rule is already on a line (as written, with `./` before it, with `/`
\* after it, or with `*` for `**`) and is wanted present, the file is left
\* as it was
C23_AppendOnly ==
  \A j \in 1..Len(ignoreHist) :
    LET before == ignoreHist[j].before[call.file]
        after == ignoreHist[j].after[call.file]
    IN  /\ before # Missing => after # Missing /\ StartsWith(after, before)
        /\ (call.shouldExist /\ RulePresent(before, call.pattern)) => after = before

\* C24: modifyIgnoreFile is idempotent for both values of shouldExist: a
\* second call with the same arguments leaves the file as the first call
\* left it, whether the file existed and whether the rule was in it
C24_ModifyIdempotent ==
  \A j \in 2..Len(ignoreHist) : ignoreHist[j].after = ignoreHist[j].before

\* the chunks of a text of len characters are well formed: each is a
\* non-empty span of at most ChunkSize characters, every one but the last of
\* exactly ChunkSize, and one after the other they are the whole text
WellChunked(chunks, len) ==
  /\ \A j \in 1..Len(chunks) :
       /\ chunks[j][2] - chunks[j][1] >= 1
       /\ chunks[j][2] - chunks[j][1] <= ChunkSize
       /\ j < Len(chunks) => chunks[j][2] - chunks[j][1] = ChunkSize
       /\ chunks[j][1] = (IF j = 1 THEN 0 ELSE chunks[j - 1][2])
  /\ (IF Len(chunks) = 0 THEN 0 ELSE chunks[Len(chunks)][2]) = len

\* the file the report shows under a label: the last counted one that has it
LastWithLabel(key) == Max({k \in 1..Len(filePaths) : Label(filePaths[k]) = key})

\* C25: readFileStreamChunks yields the text of a file in chunks, each
\* non-empty and at most 8192 characters long, every chunk but the last
\* exactly 8192 long, whose concatenation is the whole text; so with one
\* token per character a file of K repetitions of a 5-character string is
\* counted and reported as 5K tokens, whatever K (0 included) and however the
\* text falls on the chunk boundaries
C25_ChunksCoverText ==
  /\ \A k \in 1..Len(filePaths) :
       /\ WellChunked(readFileStreamChunks(fileLen[filePaths[k]], readSize),
                      fileLen[filePaths[k]])
       /\ taskDone[k] => taskTokens[k] = fileLen[filePaths[k]]
       /\ fileLen[filePaths[k]] % 5 = 0
  /\ report # <<>> =>
       \A e \in Range(FileTokens(report)) : e.value = fileLen[filePaths[LastWithLabel(e.key)]]

\* a counted text of 5 * 1639 characters, read 3000 bytes at a time: it came
\* in two chunks; and an empty one
C25_Witness ==
  /\ pc = "done"
  /\ readSize < ChunkSize
  /\ \E k \in 1..Len(filePaths) :
       /\ fileLen[filePaths[k]] = 5 * 1639
       /\ taskPos[k] = 2
       /\ \E e \in Range(report) : e.key = Label(filePaths[k]) /\ e.value = 5 * 1639
  /\ \E k \in 1..Len(filePaths) : fileLen[filePaths[k]] = 0 /\ taskPos[k] = 0 /\ taskDone[k]

\* the four tiers of a token count
Tier(count) ==
  IF count < 60000 THEN "nominal"
  ELSE IF 60000 <= count /\ count < 120000 THEN "elevated"
  ELSE IF 120000 <= count /\ count < 200000 THEN "high"
  ELSE "critical"

\* the colour each tier is shown in
TierColor(tier) ==
  IF tier = "nominal" THEN "green"
  ELSE IF tier = "elevated" THEN "yellow"
  ELSE IF tier = "high" THEN "brightYellow"
  ELSE "red"

WarningShown == Written(Line("log", "TOKEN COUNT WARNING")) >= 1

C26_State ==
  report # <<>> =>
    /\ \A e \in Range(FileTokens(report)) :
         Written(Line("log", "row " \o e.key \o " " \o TierColor(Tier(e.value)))) = 1
    /\ Cardinality({i \in DOMAIN out : StartsWith(out[i].text, "row ")}) = Len(FileTokens(report))
    /\ WarningShown <=> \E e \in Range(FileTokens(report)) : Tier(e.value) # "nominal"
    /\ pc = "done"
    /\ out[Len(out)] = Line("log", "Built files")
C26_Step ==
  (report = <<>> /\ report' # <<>>) =>
    /\ report' = PutEntry(result, "totalTokens", totalTokens)
    /\ UNCHANGED <<results, existingResults, filePaths, files, phase>>

C27_OneEntryPerFile ==
  report # <<>> =>
    /\ Len(FileTokens(report)) = Cardinality(Range(filePaths))
    /\ \A k \in 1..Len(filePaths) :
         \E e \in Range(FileTokens(report)) :
           e.key = Label(filePaths[k]) /\ e.value = taskTokens[k]

\* the path the tool of mix k was told to write to
OutputOf(k) == ToolTarget(toolCalls[k][1])

\* C28: within one run no two mixes resolve to the same output path, so the
\* output file of a mix is never overwritten by a later mix of the run: not
\* for two local mixes without `output`, not for remotes outside GitHub, not
\* for names that differ only in letter case or separators
C28_DistinctOutputPaths ==
  \A i, j \in 1..N :
    (i # j /\ toolCalls[i] # <<>> /\ toolCalls[j] # <<>>) => OutputOf(i) # OutputOf(j)

\* the path after `--config` in an argument list (U: there is none)
ConfigArg(args) ==
  IF \E k \in 1..(Len(args) - 1) : args[k] = "--config"
  THEN args[Min({k \in 1..(Len(args) - 1) : args[k] = "--config"}) + 1]
  ELSE U

\* C30: for every mix with an external config, the path whose existence
\* runRepomix checked is the path the tool is given with `--config` and the
\* one buildRepomixArgs reads the output location from, also when `config`
\* and `repomixConfig` are both set, to different paths
C30_OneExternalConfigPath ==
  \A k \in 1..N :
    (toolCalls[k] # <<>> /\ HasExternalConfig(configs[k])) =>
      /\ ConfigArg(toolCalls[k][1]) = ValidatedConfigPath(configs[k])
      /\ ConfigPathOf(configs[k]) = ValidatedConfigPath(configs[k])

\* C29: a mix is reported as succeeded only if its output file was written
\* by the tool invocation of that mix in this run: a file left at the
\* resolved path by an earlier run, or by an earlier mix of the run, never
\* makes a mix succeed whose own tool exited 0 without writing a file
C29_SuccessNeedsOwnOutput ==
  \A k \in 1..N : phase[k] = "SUCCEEDED" => toolWrote[k]

====
